---- MODULE Spec2Model ----
(***************************************************************************)
(* Tenant resolution and database routing of the Food-and-Beverages        *)
(* backend: TenantMiddleware (FB/middleware.py), the tenant helpers and    *)
(* the RouterTenantContextMixin of Restaurants/views.py, the register-db   *)
(* endpoint, and one routed handler (CuisineViewSet.perform_create).       *)
(* Each request is a sequential process; requests interleave at every      *)
(* access to the shared state (settings.DATABASES and the current-tenant   *)
(* slot of FB.db_router).                                                  *)
(***************************************************************************)
EXTENDS Integers, Sequences, FiniteSets, TLC

VARIABLES
    currentTenant,  \* FB.db_router: the slot set_current_tenant writes
    DATABASES,      \* settings.DATABASES: the registered aliases
    db_config,      \* settings.DATABASES[alias]: the connection parameters of each
    AUTO_MIGRATE,   \* settings.DEBUG or ASSET_AUTO_MIGRATE == "1"
    req,            \* per request: its inputs (view, header, tenant, body)
    pc,             \* per request: position in the request pipeline
    alias,          \* per request: the local variable alias of the view
    status,         \* per request: HTTP status of the response (0: none yet)
    log,            \* per request: its slot writes, registry calls and data accesses
    connections,    \* per request thread: django.db.connections, its cached handles
    schedules,      \* the RestaurantSchedule rows of the tenant database
    current_qty,    \* InventoryItem.current_qty of the item in stock
    movements,      \* the InventoryMovement rows
    audits,         \* the InventoryAudit rows
    frame,          \* per request: the local variables of its handler
    response        \* per request: the rows of the response body

tables == <<schedules, current_qty, movements, audits>>
locals == <<frame, response>>

vars == <<currentTenant, DATABASES, db_config, AUTO_MIGRATE, req, pc, alias, status, log,
          connections, tables, locals>>

\* Number of requests in flight together.
NumReqs == 2
Reqs == 1..NumReqs

None == "None"
NoHeader == "<no X-Tenant-ID>"
DefaultTenant == "vcnew_db"
DjangoDefault == "default"

(***************************************************************************)
(* Inputs                                                                  *)
(***************************************************************************)
Headers == {NoHeader, "client_1", "ghost"}

Tenant(present, a, u, c) ==
    [present |-> present, alias |-> a, client_username |-> u, client_id |-> c]

NoTenant == Tenant(FALSE, None, None, None)

TenantTokens ==
    { NoTenant,
      Tenant(TRUE, "client_1", None, "1"),
      Tenant(TRUE, "client_2", None, None),
      Tenant(TRUE, "client_1", "alice", None),
      Tenant(TRUE, "client_1", None, "2"),
      Tenant(TRUE, "ghost", None, None) }

NoBody == [client_id |-> None, client_username |-> None]

Bodies == [client_id : {None, "1", "x"}, client_username : {None, "alice"}]

RoutedRequests ==
    [view : {"routed"}, header : Headers, tenant : TenantTokens, body : {NoBody}]

RegisterDBRequests ==
    [view : {"register_db"}, header : Headers, tenant : {NoTenant}, body : Bodies]

Requests == RoutedRequests \cup RegisterDBRequests

\* Inputs of the requests served one after the other (SpecSerial): the tokens
\* above and those with a non-numeric identifier, with two identifiers, or
\* without the alias key; callers of three kinds.
SerialTenantTokens ==
    TenantTokens \cup
    { Tenant(TRUE, "client_1", None, "x"),
      Tenant(TRUE, "client_x", None, None),
      Tenant(TRUE, "client_1", "alice", "2"),
      Tenant(TRUE, None, None, "1") }

Callers == {"anonymous", "user", "admin"}

SerialRoutedRequests ==
    [view : {"routed"}, header : Headers, tenant : SerialTenantTokens, body : {NoBody},
     caller : {"user"}]

SerialRegisterDBRequests ==
    [view : {"register_db"}, header : {NoHeader}, tenant : {NoTenant}, body : Bodies,
     caller : Callers]

\* request.data of the administrative registration (db_host and db_port are
\* left out of it, so that the defaults of lines 149-150 apply)
AdminBody(t, n, u, p) ==
    [tenant_id |-> t, db_name |-> n, db_user |-> u, db_password |-> p,
     client_id |-> None, client_username |-> None]

\* Complete registrations, and one with each required field missing or empty
AdminBodies ==
    { AdminBody("client_1", "db_a", "u", "p"), AdminBody("client_1", "db_b", "u", "p"),
      AdminBody("acme", "db_a", "u", "p"),
      AdminBody(None, "db_a", "u", "p"), AdminBody("acme", None, "u", "p"),
      AdminBody("acme", "db_a", None, "p"), AdminBody("acme", "db_a", "u", None),
      AdminBody("acme", "db_a", "u", "") }

SerialRegisterTenantRequests ==
    [view : {"register_tenant"}, header : {NoHeader}, tenant : {NoTenant},
     body : AdminBodies, caller : Callers]

\* restaurant_id of the URL, and the request.data of the bulk operation
ScheduleBody(restaurant, days, operational, start_time) ==
    [client_id |-> None, client_username |-> None, restaurant |-> restaurant,
     days |-> days, operational |-> operational, start_time |-> start_time]

SerialWeeklyRequests ==
    [view : {"weekly"}, header : Headers,
     tenant : {NoTenant, Tenant(TRUE, "client_1", None, "1")},
     body : {ScheduleBody(1, <<>>, FALSE, None)}, caller : {"user"}]

SerialRequests ==
    SerialRoutedRequests \cup SerialRegisterDBRequests \cup
    SerialRegisterTenantRequests \cup SerialWeeklyRequests

Absent ==
    [view |-> "absent", header |-> NoHeader, tenant |-> NoTenant, body |-> NoBody,
     caller |-> "anonymous"]

(***************************************************************************)
(* String helpers of the Python code                                       *)
(***************************************************************************)
Digits == {"0", "1", "2", "3", "4", "5", "6", "7", "8", "9"}

\* str.isdigit(): non-empty and every character a digit
isdigit(s) == Len(s) > 0 /\ \A i \in 1..Len(s) : SubSeq(s, i, i) \in Digits

\* str.startswith(p)
startswith(s, p) == Len(s) >= Len(p) /\ SubSeq(s, 1, Len(p)) = p

\* alias.split("_", 1)[1]: what follows the first underscore
RECURSIVE FirstUnderscore(_, _)
FirstUnderscore(s, i) ==
    IF i > Len(s) THEN 0
    ELSE IF SubSeq(s, i, i) = "_" THEN i
    ELSE FirstUnderscore(s, i + 1)

split1(s) == SubSeq(s, FirstUnderscore(s, 1) + 1, Len(s))

DigitValue(d) ==
    CASE d = "0" -> 0 [] d = "1" -> 1 [] d = "2" -> 2 [] d = "3" -> 3 [] d = "4" -> 4
      [] d = "5" -> 5 [] d = "6" -> 6 [] d = "7" -> 7 [] d = "8" -> 8 [] d = "9" -> 9

\* int(s) of a digit string; int() raises ValueError on anything else
RECURSIVE int(_)
int(s) ==
    IF Len(s) = 1 THEN DigitValue(s)
    ELSE 10 * int(SubSeq(s, 1, Len(s) - 1)) + DigitValue(SubSeq(s, Len(s), Len(s)))

\* int(x) returns normally exactly on digit strings (the values the tokens carry)
IntOk(s) == isdigit(s)

(***************************************************************************)
(* FB.db_router and Restaurants.utils                                      *)
(***************************************************************************)
\* set_current_tenant(v): one module-level slot shared by all requests
set_current_tenant(v) == currentTenant' = v

\* get_current_tenant()
get_current_tenant == currentTenant

\* The router's db_for_read / db_for_write: the current tenant, and Django's
\* "default" connection when the router has none to offer.
db_for_access == IF get_current_tenant = None THEN DjangoDefault ELSE get_current_tenant

\* The client a username belongs to (the lookup register_tenant_database does).
ClientOfUsername(u) == IF u = "alice" THEN 1 ELSE 0

\* The canonical alias of a client: client_<id>
AliasOfClient(n) == "client_" \o ToString(n)

\* Port of a descriptor that names none
DefaultPort == 5432

\* The connection parameters registration synthesizes for a client's alias
SynthConfig(a) ==
    [NAME |-> a, USER |-> "fb", PASSWORD |-> "fb-secret", HOST |-> "localhost",
     PORT |-> DefaultPort]

\* register(alias, params): adds the descriptor or replaces the one stored
Register(a, params) ==
    /\ DATABASES' = DATABASES \cup {a}
    /\ db_config' = [x \in DATABASES \cup {a} |-> IF x = a THEN params ELSE db_config[x]]

\* register_tenant_database(client_id=n): adds or replaces the descriptor
register_tenant_database(n) == Register(AliasOfClient(n), SynthConfig(AliasOfClient(n)))

(***************************************************************************)
(* django.db.connections of one thread                                     *)
(***************************************************************************)
\* Handles a thread may open in all
MaxHandles == 4

NoConnections == [cache |-> {}, opened |-> 0, evicted |-> {}]

\* The handles cached for alias a: pairs <<alias, number of the handle>>
Cached(c, a) == {h \in c.cache : h[1] = a}

\* connections[a] put to use: the cached handle, or a newly opened one
getHandle(c, a) ==
    IF Cached(c, a) # {} THEN c
    ELSE [c EXCEPT !.cache = @ \cup {<<a, c.opened + 1>>}, !.opened = @ + 1]

\* connections[a].close(): the handle is closed and no longer cached
evict(c, a) ==
    [c EXCEPT !.cache = @ \ Cached(c, a),
              !.evicted = @ \cup {h[2] : h \in Cached(c, a)}]

\* close() that leaves the closed handle in the cache
evict_keeps_handle(c, a) ==
    [c EXCEPT !.evicted = @ \cup {h[2] : h \in Cached(c, a)}]

Connect(r, a) == connections' = [connections EXCEPT ![r] = getHandle(@, a)]

(***************************************************************************)
(* Log entries                                                             *)
(***************************************************************************)
Set(v) == [op |-> "set", arg |-> v, via |-> "-"]
Clear(by) == [op |-> "clear", arg |-> None, via |-> by]
Resolved(a) == [op |-> "resolved", arg |-> a, via |-> "-"]
Registered(a) == [op |-> "register", arg |-> a, via |-> "-"]
Migrated(a) == [op |-> "migrate", arg |-> a, via |-> "-"]
Access(db, via) == [op |-> "access", arg |-> db, via |-> via]
HandlerStart == [op |-> "handler_start", arg |-> None, via |-> "-"]
HandlerEnd(how) == [op |-> "handler_end", arg |-> None, via |-> how]
Raised(kind) == [op |-> "raise", arg |-> None, via |-> kind]
Missing(a) == [op |-> "missing", arg |-> a, via |-> "-"]
DbError == [op |-> "db_error", arg |-> None, via |-> "-"]
End == [op |-> "end", arg |-> None, via |-> "-"]

Logged(r, es) == log' = [log EXCEPT ![r] = @ \o es]
Goto(r, l) == pc' = [pc EXCEPT ![r] = l]
Respond(r, s) == status' = [status EXCEPT ![r] = s]

\* A handler that has no local variables yet
NoFrame == [day |-> 0, before |-> {}, qty_before |-> 0, qty_after |-> 0, movement |-> 0]

(***************************************************************************)
(* Init                                                                    *)
(***************************************************************************)
Init ==
    /\ currentTenant = None
    /\ DATABASES = {DjangoDefault, DefaultTenant}
    /\ db_config = [a \in {DjangoDefault, DefaultTenant} |-> SynthConfig(a)]
    /\ AUTO_MIGRATE \in BOOLEAN
    /\ req \in [Reqs -> Requests]
    /\ pc = [r \in Reqs |-> "start"]
    /\ alias = [r \in Reqs |-> None]
    /\ status = [r \in Reqs |-> 0]
    /\ log = [r \in Reqs |-> <<>>]
    /\ connections = [r \in Reqs |-> NoConnections]
    /\ schedules = {}
    /\ current_qty = 0
    /\ movements = {}
    /\ audits = <<>>
    /\ frame = [r \in Reqs |-> NoFrame]
    /\ response = [r \in Reqs |-> <<>>]

(***************************************************************************)
(* TenantMiddleware                                                        *)
(***************************************************************************)
\* request.headers.get('X-Tenant-ID', 'vcnew_db')
HeaderTenant(h) == IF h = NoHeader THEN DefaultTenant ELSE h

process_request(r) ==
    /\ pc[r] = "start"
    /\ UNCHANGED <<connections, tables, locals>>
    /\ LET tenant == HeaderTenant(req[r].header)
           bound == IF tenant \in DATABASES THEN tenant ELSE DefaultTenant
       IN /\ set_current_tenant(bound)
          /\ Logged(r, <<Set(bound)>>)
    /\ Goto(r, "dispatch")
    /\ UNCHANGED <<DATABASES, db_config, AUTO_MIGRATE, req, alias, status>>

\* process_response returning the response without the clear
process_response_keeps_tenant(r) ==
    /\ pc[r] = "process_response"
    /\ UNCHANGED <<connections, tables, locals>>
    /\ Logged(r, <<End>>)
    /\ Goto(r, "done")
    /\ UNCHANGED <<currentTenant, DATABASES, db_config, AUTO_MIGRATE, req, alias, status>>

process_response(r) ==
    /\ pc[r] = "process_response"
    /\ UNCHANGED <<connections, tables, locals>>
    /\ set_current_tenant(None)
    /\ Logged(r, <<Clear("process_response"), End>>)
    /\ Goto(r, "done")
    /\ UNCHANGED <<DATABASES, db_config, AUTO_MIGRATE, req, alias, status>>

(***************************************************************************)
(* Exits of APIView.dispatch                                               *)
(***************************************************************************)
\* An APIException raised in initial() or the handler: handle_exception turns
\* it into a response, which dispatch passes to finalize_response.
RaiseAPIException(r, code, es) ==
    /\ Respond(r, code)
    /\ Logged(r, <<Raised("APIException")>> \o es)
    /\ Goto(r, "finalize_response")

\* Any other exception: handle_exception re-raises it, dispatch is left without
\* finalize_response, and Django answers 500 on the way out through the middleware.
RaiseUncaught(r, es) ==
    /\ Respond(r, 500)
    /\ Logged(r, <<Raised("uncaught")>> \o es)
    /\ Goto(r, "process_response")

\* The log entry that closes the handler, when the raise happens inside it.
Ended(inHandler, how) == IF inHandler THEN <<HandlerEnd(how)>> ELSE <<>>

(***************************************************************************)
(* _get_tenant_from_request and _ensure_alias_ready                        *)
(***************************************************************************)
get_tenant_from_request(r) == req[r].tenant

\* Which register_tenant_database call _ensure_alias_ready makes for a tenant
\* whose alias is not registered: "username", "id", "suffix" or "none".
RegistrationBranch_IdFirst(t) ==
    IF t.client_id # None THEN "id"
    ELSE IF t.client_username # None THEN "username"
    ELSE IF startswith(t.alias, "client_") THEN "suffix"
    ELSE "none"

RegistrationBranch(t) ==
    IF t.client_username # None THEN "username"
    ELSE IF t.client_id # None THEN "id"
    ELSE IF startswith(t.alias, "client_") THEN "suffix"
    ELSE "none"

\* Lines 60-64 and the choice of branch: the membership test reads DATABASES;
\* the registration it decides on is a later step of the same call.
ensure_alias_check(r, inHandler, regpc, okpc) ==
    LET t == get_tenant_from_request(r) IN
    /\ UNCHANGED <<currentTenant, DATABASES, db_config, AUTO_MIGRATE, req>>
    /\ IF ~t.present \/ t.alias = None
       THEN /\ RaiseAPIException(r, 401, Ended(inHandler, "api_error"))
            /\ UNCHANGED alias
       ELSE IF t.alias \in DATABASES
       THEN /\ alias' = [alias EXCEPT ![r] = t.alias]
            /\ Logged(r, <<Resolved(t.alias)>>)
            /\ Goto(r, okpc)
            /\ UNCHANGED status
       ELSE IF RegistrationBranch(t) # "none"
       THEN /\ Goto(r, regpc)
            /\ Logged(r, <<Missing(t.alias)>>)
            /\ UNCHANGED <<alias, status>>
       ELSE /\ Respond(r, 500)
            /\ Logged(r, <<Missing(t.alias), Raised("APIException")>> \o
                         Ended(inHandler, "api_error"))
            /\ Goto(r, "finalize_response")
            /\ UNCHANGED alias

\* The argument of int() on the branch taken (lines 68 and 70).
ClientIdText(t) ==
    IF RegistrationBranch(t) = "id" THEN t.client_id ELSE split1(t.alias)

\* Lines 65-70 and the return of line 73.
ensure_alias_register(r, inHandler, okpc) ==
    LET t == get_tenant_from_request(r)
        b == RegistrationBranch(t)
    IN
    /\ UNCHANGED <<currentTenant, AUTO_MIGRATE, req>>
    /\ IF b # "username" /\ ~IntOk(ClientIdText(t))
       THEN /\ RaiseUncaught(r, Ended(inHandler, "exception"))
            /\ UNCHANGED <<DATABASES, db_config, alias>>
       ELSE LET n == IF b = "username" THEN ClientOfUsername(t.client_username)
                     ELSE int(ClientIdText(t))
            IN /\ register_tenant_database(n)
               /\ alias' = [alias EXCEPT ![r] = t.alias]
               /\ Logged(r, <<Registered(AliasOfClient(n)), Resolved(t.alias)>>)
               /\ Goto(r, okpc)
               /\ UNCHANGED status

(***************************************************************************)
(* RouterTenantContextMixin                                                *)
(***************************************************************************)
\* The views that inherit RouterTenantContextMixin: CuisineViewSet ("routed"),
\* RestaurantScheduleViewSet.by_restaurant, RestaurantScheduleBulkView and
\* InventoryMovementViewSet
RoutedViews == {"routed", "by_restaurant", "bulk", "movement"}

\* initial(), line 80: the membership test of _ensure_alias_ready
initial(r) ==
    /\ pc[r] = "dispatch"
    /\ UNCHANGED <<connections, tables, locals>>
    /\ req[r].view \in RoutedViews
    /\ ensure_alias_check(r, FALSE, "initial_register", "initial_set")

\* initial(), line 80: the registration of _ensure_alias_ready
initial_register(r) ==
    /\ pc[r] = "initial_register"
    /\ UNCHANGED <<connections, tables, locals>>
    /\ ensure_alias_register(r, FALSE, "initial_set")

\* initial() going on to the handler without binding the alias
initial_set_unbound(r) ==
    /\ pc[r] = "initial_set"
    /\ UNCHANGED <<connections, tables, locals>>
    /\ Logged(r, <<HandlerStart>>)
    /\ Goto(r, "handler_alias")
    /\ UNCHANGED <<currentTenant, DATABASES, db_config, AUTO_MIGRATE, req, alias, status>>

\* initial(), lines 81-82: bind the alias, then the handler starts
initial_set(r) ==
    /\ pc[r] = "initial_set"
    /\ UNCHANGED <<connections, tables, locals>>
    /\ set_current_tenant(alias[r])
    /\ Logged(r, <<Set(alias[r]), HandlerStart>>)
    /\ Goto(r, "handler_alias")
    /\ UNCHANGED <<DATABASES, db_config, AUTO_MIGRATE, req, alias, status>>

\* finalize_response without the finally clause
finalize_response_no_finally(r) ==
    /\ pc[r] = "finalize_response"
    /\ UNCHANGED <<connections, tables, locals>>
    /\ Goto(r, "process_response")
    /\ UNCHANGED <<currentTenant, DATABASES, db_config, AUTO_MIGRATE, req, alias, status, log>>

finalize_response(r) ==
    /\ pc[r] = "finalize_response"
    /\ UNCHANGED <<connections, tables, locals>>
    /\ set_current_tenant(None)
    /\ Logged(r, <<Clear("finalize_response")>>)
    /\ Goto(r, "process_response")
    /\ UNCHANGED <<DATABASES, db_config, AUTO_MIGRATE, req, alias, status>>

(***************************************************************************)
(* A routed handler: CuisineViewSet.create -> perform_create               *)
(***************************************************************************)
\* get_serializer -> TenantSerializerContextMixin.get_serializer_context, line 93
get_serializer_context(r) ==
    /\ pc[r] = "handler_alias"
    /\ req[r].view = "routed"
    /\ UNCHANGED <<connections, tables, locals>>
    /\ ensure_alias_check(r, TRUE, "context_register", "perform_create")

get_serializer_context_register(r) ==
    /\ pc[r] = "context_register"
    /\ UNCHANGED <<connections, tables, locals>>
    /\ ensure_alias_register(r, TRUE, "perform_create")

\* is_valid(raise_exception=True), then perform_create line 1029: self._alias()
perform_create(r) ==
    /\ pc[r] = "perform_create"
    /\ UNCHANGED <<connections, tables, locals>>
    /\ \E valid \in BOOLEAN :
         IF valid
         THEN ensure_alias_check(r, TRUE, "perform_create_register", "save")
         ELSE /\ RaiseAPIException(r, 400, <<HandlerEnd("api_error")>>)
              /\ UNCHANGED <<currentTenant, DATABASES, db_config, AUTO_MIGRATE, req, alias>>

perform_create_register(r) ==
    /\ pc[r] = "perform_create_register"
    /\ UNCHANGED <<connections, tables, locals>>
    /\ ensure_alias_register(r, TRUE, "save")

\* perform_create line 1030: serializer.save() names no database, the router
\* picks it from the current tenant; the write may fail with a database error.
serializer_save(r) ==
    /\ pc[r] = "save"
    /\ UNCHANGED <<currentTenant, DATABASES, db_config, AUTO_MIGRATE, req, alias>>
    /\ UNCHANGED <<tables, locals>>
    /\ \E saved \in (IF db_for_access \in DATABASES THEN BOOLEAN ELSE {FALSE}) :
         IF saved
         THEN /\ Logged(r, <<Access(db_for_access, "router")>>)
              /\ Connect(r, db_for_access)
              /\ Goto(r, "master_items")
              /\ UNCHANGED status
         ELSE /\ Respond(r, 500)
              /\ UNCHANGED connections
              /\ Logged(r, <<Access(db_for_access, "router"), DbError,
                             Raised("uncaught"), HandlerEnd("exception")>>)
              /\ Goto(r, "process_response")

\* perform_create lines 1031-1043: the queries that pass using(alias), then 201;
\* connections[alias] raises ConnectionDoesNotExist for an alias not registered
master_items(r) ==
    /\ pc[r] = "master_items"
    /\ UNCHANGED <<tables, locals>>
    /\ IF alias[r] \in DATABASES
       THEN /\ Logged(r, <<Access(alias[r], "using"), HandlerEnd("return")>>)
            /\ Connect(r, alias[r])
            /\ Respond(r, 201)
            /\ Goto(r, "finalize_response")
            /\ UNCHANGED <<currentTenant, DATABASES, db_config, AUTO_MIGRATE, req, alias>>
       ELSE /\ RaiseUncaught(r, <<HandlerEnd("exception")>>)
            /\ UNCHANGED <<currentTenant, DATABASES, db_config, AUTO_MIGRATE, req, alias,
                           connections>>

(***************************************************************************)
(* RegisterDBByClientAPIView.post                                          *)
(***************************************************************************)
\* Line 120: int(client_id) if str(client_id).isdigit() else None (0: None)
ClientIdArg(b) == IF isdigit(b.client_id) THEN int(b.client_id) ELSE 0

\* Line 121: client_username if not client_id else None
ClientUsernameArg(b) == IF b.client_id = None THEN b.client_username ELSE None

\* ensure_alias_for_client: the alias it derives (None: it raises)
ensure_alias_for_client(cid, uname) ==
    IF cid # 0 THEN AliasOfClient(cid)
    ELSE IF uname # None THEN AliasOfClient(ClientOfUsername(uname))
    ELSE None

\* The call of lines 119-122 with the arguments it is given
Ensure(cid, uname) ==
    [op |-> "ensure", arg |-> IF cid = 0 THEN None ELSE ToString(cid), via |-> uname]

\* Lines 112-122: validation, then ensure_alias_for_client registers the alias
\* when the registry does not hold it.
register_db_post(r) ==
    LET b == req[r].body
        a == ensure_alias_for_client(ClientIdArg(b), ClientUsernameArg(b))
    IN
    /\ pc[r] = "dispatch"
    /\ UNCHANGED <<connections, tables, locals>>
    /\ req[r].view = "register_db"
    /\ UNCHANGED <<currentTenant, AUTO_MIGRATE, req>>
    /\ IF b.client_id = None /\ b.client_username = None
       THEN /\ Respond(r, 400)
            /\ Logged(r, <<HandlerStart, HandlerEnd("return")>>)
            /\ Goto(r, "process_response")
            /\ UNCHANGED <<DATABASES, db_config, alias>>
       ELSE IF a = None
       THEN /\ Respond(r, 400)
            /\ Logged(r, <<HandlerStart, Ensure(ClientIdArg(b), ClientUsernameArg(b)),
                           HandlerEnd("return")>>)
            /\ Goto(r, "process_response")
            /\ UNCHANGED <<DATABASES, db_config, alias>>
       ELSE /\ IF a \in DATABASES
               THEN UNCHANGED <<DATABASES, db_config>>
               ELSE Register(a, SynthConfig(a))
            /\ alias' = [alias EXCEPT ![r] = a]
            /\ Logged(r, <<HandlerStart, Ensure(ClientIdArg(b), ClientUsernameArg(b))>> \o
                         (IF a \in DATABASES THEN <<>> ELSE <<Registered(a)>>) \o
                         <<Resolved(a)>>)
            /\ Goto(r, "migrate")
            /\ UNCHANGED status

\* Lines 124-138 without the close of lines 129-132
register_db_migrate_no_close(r) ==
    /\ pc[r] = "migrate"
    /\ Goto(r, "process_response")
    /\ UNCHANGED <<tables, locals>>
    /\ IF AUTO_MIGRATE
       THEN \E migrated \in BOOLEAN :
              IF migrated
              THEN /\ Logged(r, <<Migrated(alias[r]), HandlerEnd("return")>>)
                   /\ Connect(r, alias[r])
                   /\ Respond(r, 201)
              ELSE /\ Logged(r, <<DbError, HandlerEnd("return")>>)
                   /\ UNCHANGED connections
                   /\ Respond(r, 400)
       ELSE /\ Logged(r, <<HandlerEnd("return")>>)
            /\ UNCHANGED connections
            /\ Respond(r, 201)
    /\ UNCHANGED <<currentTenant, DATABASES, db_config, AUTO_MIGRATE, req, alias>>

\* Lines 124-138 with a close() that leaves the closed handle cached
register_db_migrate_keeps_handle(r) ==
    /\ pc[r] = "migrate"
    /\ Goto(r, "process_response")
    /\ UNCHANGED <<tables, locals>>
    /\ IF AUTO_MIGRATE
       THEN \E migrated \in BOOLEAN :
              IF migrated
              THEN /\ Logged(r, <<Migrated(alias[r]), HandlerEnd("return")>>)
                   /\ connections' = [connections EXCEPT ![r] =
                          evict_keeps_handle(getHandle(@, alias[r]), alias[r])]
                   /\ Respond(r, 201)
              ELSE /\ Logged(r, <<DbError, HandlerEnd("return")>>)
                   /\ UNCHANGED connections
                   /\ Respond(r, 400)
       ELSE /\ Logged(r, <<HandlerEnd("return")>>)
            /\ connections' = [connections EXCEPT ![r] = evict_keeps_handle(@, alias[r])]
            /\ Respond(r, 201)
    /\ UNCHANGED <<currentTenant, DATABASES, db_config, AUTO_MIGRATE, req, alias>>

\* Lines 124-138: the gated migrate, which works on the handle of the alias,
\* then connections[alias].close() and 201; a migrate that cannot reach the
\* database raises, and line 136 answers 400 without reaching the close
register_db_migrate(r) ==
    /\ pc[r] = "migrate"
    /\ Goto(r, "process_response")
    /\ UNCHANGED <<tables, locals>>
    /\ IF AUTO_MIGRATE
       THEN \E migrated \in BOOLEAN :
              IF migrated
              THEN /\ Logged(r, <<Migrated(alias[r]), HandlerEnd("return")>>)
                   /\ connections' = [connections EXCEPT ![r] =
                          evict(getHandle(@, alias[r]), alias[r])]
                   /\ Respond(r, 201)
              ELSE /\ Logged(r, <<DbError, HandlerEnd("return")>>)
                   /\ UNCHANGED connections
                   /\ Respond(r, 400)
       ELSE /\ Logged(r, <<HandlerEnd("return")>>)
            /\ connections' = [connections EXCEPT ![r] = evict(@, alias[r])]
            /\ Respond(r, 201)
    /\ UNCHANGED <<currentTenant, DATABASES, db_config, AUTO_MIGRATE, req, alias>>

(***************************************************************************)
(* RegisterTenantDatabaseView                                              *)
(***************************************************************************)
\* Python truthiness of a request field: a missing value and "" are false
Falsy(x) == x \in {None, ""}

\* permissions.IsAdminUser: request.user and request.user.is_staff
IsAdminUser(r) == req[r].caller = "admin"

\* Lines 145-151
DbConfigOf(b) ==
    [NAME |-> b.db_name, USER |-> b.db_user, PASSWORD |-> b.db_password,
     HOST |-> "localhost", PORT |-> DefaultPort]

\* Line 153 without the test of the password
MissingRequiredFields_NoPassword(b) ==
    Falsy(b.tenant_id) \/ Falsy(b.db_name) \/ Falsy(b.db_user)

\* Line 153: not tenant_id or not all([NAME, USER, PASSWORD])
MissingRequiredFields(b) ==
    Falsy(b.tenant_id) \/ Falsy(b.db_name) \/ Falsy(b.db_user) \/ Falsy(b.db_password)

\* The permission check of initial(), then post (lines 143-170);
\* register_tenant_database answers whether it registered the descriptor.
register_tenant_post(r) ==
    LET b == req[r].body IN
    /\ pc[r] = "dispatch"
    /\ UNCHANGED <<connections, tables, locals>>
    /\ req[r].view = "register_tenant"
    /\ Goto(r, "process_response")
    /\ UNCHANGED <<currentTenant, AUTO_MIGRATE, req, alias>>
    /\ IF ~IsAdminUser(r)
       THEN /\ Respond(r, IF req[r].caller = "anonymous" THEN 401 ELSE 403)
            /\ Logged(r, <<Raised("APIException")>>)
            /\ UNCHANGED <<DATABASES, db_config>>
       ELSE IF MissingRequiredFields(b)
       THEN /\ Respond(r, 400)
            /\ Logged(r, <<HandlerStart, HandlerEnd("return")>>)
            /\ UNCHANGED <<DATABASES, db_config>>
       ELSE \E success \in BOOLEAN :
              IF success
              THEN /\ Register(b.tenant_id, DbConfigOf(b))
                   /\ Respond(r, 201)
                   /\ Logged(r, <<HandlerStart, Registered(b.tenant_id),
                                  HandlerEnd("return")>>)
              ELSE /\ Respond(r, 500)
                   /\ Logged(r, <<HandlerStart, DbError, HandlerEnd("return")>>)
                   /\ UNCHANGED <<DATABASES, db_config>>

(***************************************************************************)
(* RestaurantSchedule rows                                                 *)
(***************************************************************************)
\* range(1, 8)
Days == 1..7
Restaurants == {1, 2}

\* The database whose RestaurantSchedule and inventory tables are followed
TenantDB == "client_1"

Row(restaurant, day, is_deleted, operational, start_time) ==
    [restaurant |-> restaurant, day |-> day, is_deleted |-> is_deleted,
     operational |-> operational, booking_allowed |-> FALSE, order_allowed |-> FALSE,
     start_time |-> start_time]

\* The RestaurantSchedule table of a database
TableOf(db) == IF db = TenantDB THEN schedules ELSE {}

\* RestaurantSchedule.objects: ActiveManager.get_queryset, is_deleted=False
ActiveManager(T) == {x \in T : ~x.is_deleted}

\* .filter(restaurant_id=..., day=...) and .filter(restaurant_id=...)
OfDay(T, restaurant, day) == {x \in T : x.restaurant = restaurant /\ x.day = day}
OfRestaurant(T, restaurant) == {x \in T : x.restaurant = restaurant}

\* .order_by("day"), from day d on
RECURSIVE order_by_day(_, _)
order_by_day(T, d) ==
    IF d > 7 THEN <<>>
    ELSE LET S == {x \in T : x.day = d}
         IN (IF S = {} THEN <<>> ELSE <<CHOOSE x \in S : TRUE>>) \o order_by_day(T, d + 1)

\* The default row of the weekly view, lines 356-366
WeeklyDefault(day) ==
    [day |-> day, operational |-> FALSE, start_time |-> None,
     booking_allowed |-> FALSE, order_allowed |-> FALSE]

(***************************************************************************)
(* RestaurantWeeklyScheduleView                                            *)
(***************************************************************************)
\* get, lines 343-370: the query names no database, the router picks it.
\* RestaurantScheduleSerializer(row) is built without a context: its
\* __init__ (serializers.py lines 20-27) asks self.alias for the
\* unique_together validator, which raises RuntimeError, so a stored row
\* ends the request; with no stored row the 7 default rows are returned.
weekly_schedule_get(r) ==
    LET stored == ActiveManager(OfRestaurant(TableOf(db_for_access), req[r].body.restaurant))
    IN
    /\ pc[r] = "dispatch"
    /\ req[r].view = "weekly"
    /\ Goto(r, "process_response")
    /\ UNCHANGED <<tables, frame>>
    /\ UNCHANGED <<currentTenant, DATABASES, db_config, AUTO_MIGRATE, req, alias>>
    /\ IF db_for_access \notin DATABASES
       THEN /\ Respond(r, 500)
            /\ Logged(r, <<HandlerStart, Raised("uncaught"), HandlerEnd("exception")>>)
            /\ UNCHANGED <<connections, response>>
       ELSE /\ Connect(r, db_for_access)
            /\ IF stored # {}
               THEN /\ Respond(r, 500)
                    /\ Logged(r, <<HandlerStart, Access(db_for_access, "router"),
                                   Raised("uncaught"), HandlerEnd("exception")>>)
                    /\ UNCHANGED response
               ELSE /\ Respond(r, 200)
                    /\ Logged(r, <<HandlerStart, Access(db_for_access, "router"),
                                   HandlerEnd("return")>>)
                    /\ response' = [response EXCEPT ![r] = [d \in Days |-> WeeklyDefault(d)]]

(***************************************************************************)
(* RestaurantScheduleViewSet.by_restaurant                                 *)
(***************************************************************************)
\* Where a handler goes on once self._alias() / get_serializer_context has
\* returned the alias
AfterAlias(view) ==
    CASE view = "by_restaurant" -> "get_or_create"
      [] view = "bulk" -> "is_valid"
      [] OTHER -> "movement_is_valid"

Snapshot(r) ==
    frame' = [frame EXCEPT ![r] = [@ EXCEPT !.day = 1, !.before = schedules,
                                              !.qty_before = current_qty]]

\* Line 288 (by_restaurant), line 322 (bulk: get_serializer) and line 788
\* (movement): the membership test of _ensure_alias_ready
handler_alias(r) ==
    /\ pc[r] = "handler_alias"
    /\ req[r].view \in RoutedViews \ {"routed"}
    /\ ensure_alias_check(r, TRUE, "handler_alias_register", AfterAlias(req[r].view))
    /\ Snapshot(r)
    /\ UNCHANGED <<connections, tables, response>>

\* The registration of that call
handler_alias_register(r) ==
    /\ pc[r] = "handler_alias_register"
    /\ ensure_alias_register(r, TRUE, AfterAlias(req[r].view))
    /\ UNCHANGED <<connections, tables, locals>>

\* The loop of lines 291-296 moving on to the next day, or to line 298
NextDay(r) ==
    /\ Goto(r, IF frame[r].day = 7 THEN "list" ELSE "get_or_create")
    /\ frame' = [frame EXCEPT ![r] = [@ EXCEPT !.day = @ + 1]]

\* get_or_create, lines 292-296: the get through RestaurantSchedule.objects;
\* using(alias) on an alias that is not registered raises
by_restaurant_get(r) ==
    LET found == ActiveManager(OfDay(TableOf(alias[r]), req[r].body.restaurant, frame[r].day))
    IN
    /\ pc[r] = "get_or_create"
    /\ UNCHANGED <<currentTenant, DATABASES, db_config, AUTO_MIGRATE, req, alias>>
    /\ UNCHANGED <<tables, response>>
    /\ IF alias[r] \notin DATABASES
       THEN /\ RaiseUncaught(r, <<HandlerEnd("exception")>>)
            /\ UNCHANGED <<connections, frame>>
       ELSE /\ Connect(r, alias[r])
            /\ UNCHANGED <<status, log>>
            /\ IF found # {} THEN NextDay(r)
               ELSE Goto(r, "create") /\ UNCHANGED frame

\* get_or_create: the create after a get that found nothing.  The insert
\* fails on unique_together (restaurant, day) when a row is there by now;
\* get_or_create then repeats the get and raises IntegrityError if that finds
\* nothing either, which is the case of a row the manager hides.
by_restaurant_create(r) ==
    LET there == OfDay(TableOf(alias[r]), req[r].body.restaurant, frame[r].day)
    IN
    /\ pc[r] = "create"
    /\ UNCHANGED <<currentTenant, DATABASES, db_config, AUTO_MIGRATE, req, alias>>
    /\ UNCHANGED <<connections, current_qty, movements, audits, response>>
    /\ IF there = {}
       THEN /\ schedules' = IF alias[r] = TenantDB
                            THEN schedules \cup {Row(req[r].body.restaurant, frame[r].day,
                                                     FALSE, FALSE, None)}
                            ELSE schedules
            /\ NextDay(r)
            /\ UNCHANGED <<status, log>>
       ELSE IF ActiveManager(there) # {}
       THEN /\ NextDay(r)
            /\ UNCHANGED <<schedules, status, log>>
       ELSE /\ RaiseUncaught(r, <<HandlerEnd("exception")>>)
            /\ UNCHANGED <<schedules, frame>>

\* Lines 298-305: the rows of the restaurant ordered by day, serialized with
\* the context get_serializer_context builds
by_restaurant_list(r) ==
    /\ pc[r] = "list"
    /\ UNCHANGED <<currentTenant, DATABASES, db_config, AUTO_MIGRATE, req, alias>>
    /\ UNCHANGED <<connections, tables, frame>>
    /\ response' = [response EXCEPT ![r] =
          order_by_day(ActiveManager(OfRestaurant(TableOf(alias[r]), req[r].body.restaurant)), 1)]
    /\ Logged(r, <<Access(alias[r], "using"), Resolved(alias[r]), HandlerEnd("return")>>)
    /\ Respond(r, 200)
    /\ Goto(r, "finalize_response")

(***************************************************************************)
(* RestaurantScheduleBulkView.create / RestaurantScheduleBulkSerializer    *)
(***************************************************************************)
\* One element of the response, lines 327-338
BulkEntry(obj) ==
    [day |-> obj.day, operational |-> obj.operational, start_time |-> obj.start_time,
     booking_allowed |-> obj.booking_allowed, order_allowed |-> obj.order_allowed]

\* The row update_or_create leaves for a day: the visible row with the
\* submitted values, or a new row with them
Submitted(b, day, old) ==
    IF old = {} THEN Row(b.restaurant, day, FALSE, b.operational, b.start_time)
    ELSE [(CHOOSE x \in old : TRUE) EXCEPT !.operational = b.operational,
                                           !.start_time = b.start_time]

\* Line 323, is_valid(raise_exception=True): the restaurant is looked up
\* through using(alias); every day must be in 1..7 (serializers.py line 93)
bulk_is_valid(r) ==
    LET days == req[r].body.days IN
    /\ pc[r] = "is_valid"
    /\ req[r].view = "bulk"
    /\ UNCHANGED <<currentTenant, DATABASES, db_config, AUTO_MIGRATE, req, alias>>
    /\ UNCHANGED <<tables, locals>>
    /\ IF alias[r] \notin DATABASES
       THEN /\ RaiseUncaught(r, <<HandlerEnd("exception")>>)
            /\ UNCHANGED connections
       ELSE /\ Connect(r, alias[r])
            /\ IF \E i \in DOMAIN days : days[i] \notin Days
               THEN RaiseAPIException(r, 400, <<HandlerEnd("api_error")>>)
               ELSE IF days = <<>>
               THEN /\ Respond(r, 201)
                    /\ Logged(r, <<HandlerEnd("return")>>)
                    /\ Goto(r, "finalize_response")
               ELSE /\ Goto(r, "update_or_create")
                    /\ UNCHANGED <<status, log>>

\* serializers.py lines 115-121: update_or_create for the next day of the
\* list, inside its own transaction; then lines 327-339 once the list is done
bulk_update_or_create(r) ==
    LET b == req[r].body
        day == b.days[frame[r].day]
        there == OfDay(TableOf(alias[r]), b.restaurant, day)
        obj == Submitted(b, day, ActiveManager(there))
        last == frame[r].day = Len(b.days)
    IN
    /\ pc[r] = "update_or_create"
    /\ UNCHANGED <<currentTenant, DATABASES, db_config, AUTO_MIGRATE, req, alias>>
    /\ UNCHANGED <<connections, current_qty, movements, audits>>
    /\ IF there # {} /\ ActiveManager(there) = {}
       THEN /\ RaiseUncaught(r, <<HandlerEnd("exception")>>)
            /\ UNCHANGED <<schedules, locals>>
       ELSE /\ schedules' = IF alias[r] = TenantDB
                            THEN (schedules \ ActiveManager(there)) \cup {obj}
                            ELSE schedules
            /\ response' = [response EXCEPT ![r] = Append(@, BulkEntry(obj))]
            /\ frame' = [frame EXCEPT ![r] = [@ EXCEPT !.day = @ + 1]]
            /\ IF last
               THEN /\ Respond(r, 201)
                    /\ Logged(r, <<Access(alias[r], "using"), HandlerEnd("return")>>)
                    /\ Goto(r, "finalize_response")
               ELSE /\ Goto(r, "update_or_create")
                    /\ UNCHANGED <<status, log>>

(***************************************************************************)
(* InventoryItem, InventoryMovement, InventoryAudit                        *)
(***************************************************************************)
MaxQty == 4
MaxSaves == 2

max(a, b) == IF a >= b THEN a ELSE b

\* InventoryItem.adjust_qty, models.py lines 347-352
adjust_qty(current, delta) == max(current + delta, 0)

\* The fields of the abstract BaseModel and of the two models
BaseFields ==
    {"id", "created_at", "updated_at", "created_by_id", "updated_by_id", "is_active",
     "is_deleted", "deleted_at", "deleted_by_id"}
MovementFields == BaseFields \cup {"item", "movement_type", "qty", "uom", "remarks"}
AuditFields == BaseFields \cup {"action", "item", "qty_before", "qty_after"}
MOVEMENT_CHOICES == {"IN", "OUT", "TRANSFER"}

\* The keyword arguments of InventoryAudit.objects.create in the signal
AuditKwargs == {"action", "user_id", "item", "qty_before", "qty_after", "details"}

\* A stored movement; saves counts the writes of its row
Movement(id, movement_type, qty, saves) ==
    [id |-> id, movement_type |-> movement_type, qty |-> qty, saves |-> saves]

\* The post_save receiver for a created movement, models.py lines 398-418:
\* the quantity it leaves on the item, the audit row it creates, and whether it
\* raises (an attribute the movement does not have, or a keyword argument
\* InventoryAudit does not accept)
apply_movement_to_item(current, m) ==
    LET after == CASE m.movement_type = "IN" -> adjust_qty(current, m.qty)
                   [] m.movement_type = "OUT" -> adjust_qty(current, 0 - m.qty)
                   [] OTHER -> current
    IN [raises |-> \/ (m.movement_type = "TRANSFER" /\ "to_location" \notin MovementFields)
                   \/ ~(AuditKwargs \subseteq AuditFields),
        current_qty |-> after,
        audit |-> [movement |-> m.id, action |-> "Movement " \o m.movement_type,
                   qty_after |-> after]]

\* request.data of POST /inventory-movements/
MovementBody(movement_type, qty, to_location) ==
    [movement_type |-> movement_type, qty |-> qty, to_location |-> to_location,
     client_id |-> None, client_username |-> None]

\* The keys of validated_data
ValidatedKeys(b) ==
    {"item", "movement_type", "qty"} \cup
    (IF b.to_location = None THEN {} ELSE {"to_location"})

\* Lines 789-790: get_serializer and is_valid(raise_exception=True).  The item
\* is looked up through using(alias); qty carries MinValueValidator(0) and
\* movement_type its choices.
movement_is_valid(r) ==
    LET b == req[r].body IN
    /\ pc[r] = "movement_is_valid"
    /\ UNCHANGED <<currentTenant, DATABASES, db_config, AUTO_MIGRATE, req, alias>>
    /\ UNCHANGED <<tables, locals>>
    /\ IF alias[r] \notin DATABASES
       THEN /\ RaiseUncaught(r, <<HandlerEnd("exception")>>)
            /\ UNCHANGED connections
       ELSE /\ Connect(r, alias[r])
            /\ IF b.qty < 0 \/ b.movement_type \notin MOVEMENT_CHOICES
               THEN RaiseAPIException(r, 400, <<HandlerEnd("api_error")>>)
               ELSE /\ Goto(r, "movement_save")
                    /\ UNCHANGED <<status, log>>

\* Lines 791-796: the transaction on the alias.  InventoryMovement(**data),
\* full_clean, save, and inside save the post_save receiver; an exception
\* rolls back what the transaction wrote and leaves the view uncaught.
movement_save(r) ==
    LET b == req[r].body
        m == Movement(Cardinality(movements) + 1, b.movement_type, b.qty, 1)
        applied == apply_movement_to_item(current_qty, m)
        raises == ~(ValidatedKeys(b) \subseteq MovementFields) \/ applied.raises
    IN
    /\ pc[r] = "movement_save"
    /\ UNCHANGED <<currentTenant, DATABASES, db_config, AUTO_MIGRATE, req, alias>>
    /\ UNCHANGED <<connections, schedules, response>>
    /\ IF raises
       THEN /\ RaiseUncaught(r, <<Access(alias[r], "using"), HandlerEnd("exception")>>)
            /\ frame' = [frame EXCEPT ![r] = [@ EXCEPT !.qty_before = current_qty,
                                                      !.qty_after = current_qty]]
            /\ UNCHANGED <<current_qty, movements, audits>>
       ELSE /\ movements' = movements \cup {m}
            /\ current_qty' = applied.current_qty
            /\ audits' = Append(audits, applied.audit)
            /\ frame' = [frame EXCEPT ![r] = [@ EXCEPT !.qty_before = current_qty,
                                                      !.qty_after = applied.current_qty,
                                                      !.movement = m.id]]
            /\ Respond(r, 201)
            /\ Logged(r, <<Access(alias[r], "using"), HandlerEnd("return")>>)
            /\ Goto(r, "finalize_response")

\* adjust_qty called on the item directly
item_adjust_qty ==
    \E delta \in {-5, -1, 1, 2} :
        /\ adjust_qty(current_qty, delta) <= MaxQty
        /\ current_qty' = adjust_qty(current_qty, delta)
        /\ UNCHANGED <<currentTenant, DATABASES, db_config, AUTO_MIGRATE, req, pc, alias,
                       status, log, connections, schedules, movements, audits, locals>>

\* save() of a movement that exists: the receiver returns at once (created is
\* false, models.py lines 396-397) and only the row is written
movement_resave ==
    \E m \in movements :
        /\ m.saves < MaxSaves
        /\ movements' = (movements \ {m}) \cup {[m EXCEPT !.saves = @ + 1]}
        /\ UNCHANGED <<currentTenant, DATABASES, db_config, AUTO_MIGRATE, req, pc, alias,
                       status, log, connections, schedules, current_qty, audits, locals>>

(***************************************************************************)
(* Specification                                                           *)
(***************************************************************************)
Next ==
    \E r \in Reqs :
        \/ process_request(r)
        \/ initial(r)
        \/ initial_register(r)
        \/ initial_set(r)
        \/ get_serializer_context(r)
        \/ get_serializer_context_register(r)
        \/ perform_create(r)
        \/ perform_create_register(r)
        \/ serializer_save(r)
        \/ master_items(r)
        \/ finalize_response(r)
        \/ register_db_post(r)
        \/ register_db_migrate(r)
        \/ process_response(r)

Spec == Init /\ [][Next]_vars

(***************************************************************************)
(* Requests served one after the other by a single worker                  *)
(***************************************************************************)
Worker == 1

InitSerial ==
    /\ currentTenant = None
    /\ DATABASES = {DjangoDefault, DefaultTenant}
    /\ db_config = [a \in {DjangoDefault, DefaultTenant} |-> SynthConfig(a)]
    /\ AUTO_MIGRATE \in BOOLEAN
    /\ \E first \in SerialRequests :
         req = [r \in Reqs |-> IF r = Worker THEN first ELSE Absent]
    /\ pc = [r \in Reqs |-> IF r = Worker THEN "start" ELSE "absent"]
    /\ alias = [r \in Reqs |-> None]
    /\ status = [r \in Reqs |-> 0]
    /\ log = [r \in Reqs |-> <<>>]
    /\ connections = [r \in Reqs |-> NoConnections]
    /\ schedules = {}
    /\ current_qty = 0
    /\ movements = {}
    /\ audits = <<>>
    /\ frame = [r \in Reqs |-> NoFrame]
    /\ response = [r \in Reqs |-> <<>>]

\* The worker takes the next request once it has answered the previous one.
next_request(r) ==
    /\ pc[r] = "done"
    /\ connections[r].opened + 2 <= MaxHandles
    /\ \E new \in SerialRequests : req' = [req EXCEPT ![r] = new]
    /\ pc' = [pc EXCEPT ![r] = "start"]
    /\ alias' = [alias EXCEPT ![r] = None]
    /\ status' = [status EXCEPT ![r] = 0]
    /\ log' = [log EXCEPT ![r] = <<>>]
    /\ frame' = [frame EXCEPT ![r] = NoFrame]
    /\ response' = [response EXCEPT ![r] = <<>>]
    /\ UNCHANGED <<currentTenant, DATABASES, db_config, AUTO_MIGRATE, connections, tables>>

NextSerial ==
    \/ Next
    \/ \E r \in Reqs :
         \/ register_tenant_post(r)
         \/ weekly_schedule_get(r)
         \/ next_request(r)

SpecSerial == InitSerial /\ [][NextSerial]_vars

(***************************************************************************)
(* The schedule views on the tenant database client_1                      *)
(***************************************************************************)
\* Tokens of a registered tenant, and of one whose alias is not registered
ScheduleTokens == {Tenant(TRUE, "client_1", None, "1"), Tenant(TRUE, "client_2", None, "1")}

DayLists == {<<1>>, <<3, 1>>, <<1, 3>>, <<2, 2>>, <<8>>}

ByRestaurantRequests ==
    [view : {"by_restaurant"}, header : {NoHeader}, tenant : ScheduleTokens,
     body : {ScheduleBody(1, <<>>, FALSE, None)}, caller : {"user"}]

BulkRequests ==
    [view : {"bulk"}, header : {NoHeader}, tenant : {Tenant(TRUE, "client_1", None, "1")},
     body : {ScheduleBody(1, D, TRUE, "09:00") : D \in DayLists} \cup
            {ScheduleBody(1, <<3, 1>>, FALSE, None)},
     caller : {"user"}]

WeeklyRequests ==
    [view : {"weekly"}, header : {NoHeader, "client_1"}, tenant : {NoTenant},
     body : {ScheduleBody(1, <<>>, FALSE, None)}, caller : {"user"}]

ScheduleRequests == ByRestaurantRequests \cup BulkRequests \cup WeeklyRequests

\* Tables the requests may find: empty, a stored day, a day whose row is
\* marked is_deleted, rows of two restaurants, a full week
StoredSchedules ==
    { {},
      {Row(1, 3, FALSE, TRUE, "09:00")},
      {Row(1, 3, TRUE, TRUE, "09:00")},
      {Row(1, 1, FALSE, TRUE, "09:00"), Row(2, 1, FALSE, FALSE, None)},
      {Row(1, d, FALSE, FALSE, None) : d \in Days} }

\* The second request, when there is one, is a by_restaurant call for the
\* same restaurant
InitSchedule ==
    /\ currentTenant = None
    /\ DATABASES = {DjangoDefault, DefaultTenant, TenantDB}
    /\ db_config = [a \in {DjangoDefault, DefaultTenant, TenantDB} |-> SynthConfig(a)]
    /\ AUTO_MIGRATE = FALSE
    /\ \E first \in ScheduleRequests :
         \E second \in {Absent} \cup {q \in ByRestaurantRequests : q.tenant.alias = TenantDB} :
            req = [r \in Reqs |-> IF r = 1 THEN first ELSE IF r = 2 THEN second ELSE Absent]
    /\ pc = [r \in Reqs |-> IF req[r] = Absent THEN "absent" ELSE "start"]
    /\ alias = [r \in Reqs |-> None]
    /\ status = [r \in Reqs |-> 0]
    /\ log = [r \in Reqs |-> <<>>]
    /\ connections = [r \in Reqs |-> NoConnections]
    /\ schedules \in StoredSchedules
    /\ current_qty = 0
    /\ movements = {}
    /\ audits = <<>>
    /\ frame = [r \in Reqs |-> NoFrame]
    /\ response = [r \in Reqs |-> <<>>]

NextSchedule ==
    \E r \in Reqs :
        \/ process_request(r)
        \/ initial(r)
        \/ initial_register(r)
        \/ initial_set(r)
        \/ handler_alias(r)
        \/ handler_alias_register(r)
        \/ by_restaurant_get(r)
        \/ by_restaurant_create(r)
        \/ by_restaurant_list(r)
        \/ bulk_is_valid(r)
        \/ bulk_update_or_create(r)
        \/ weekly_schedule_get(r)
        \/ finalize_response(r)
        \/ process_response(r)

SpecSchedule == InitSchedule /\ [][NextSchedule]_vars

(***************************************************************************)
(* The inventory movements of the tenant database client_1                 *)
(***************************************************************************)
MovementBodies ==
    {MovementBody(t, q, None) : t \in MOVEMENT_CHOICES, q \in {2, 5}} \cup
    {MovementBody("IN", -1, None), MovementBody("LOSS", 2, None), MovementBody("IN", 2, "w1")}

\* Every body for the registered tenant, one for the tenant whose alias is not
\* registered
MovementRequests ==
    {q \in [view : {"movement"}, header : {NoHeader}, tenant : ScheduleTokens,
            body : MovementBodies, caller : {"user"}] :
        q.tenant.alias = TenantDB \/ q.body = MovementBody("OUT", 2, None)}

\* The stock of the one item, and a movement stored before the requests
InitInventory ==
    /\ currentTenant = None
    /\ DATABASES = {DjangoDefault, DefaultTenant, TenantDB}
    /\ db_config = [a \in {DjangoDefault, DefaultTenant, TenantDB} |-> SynthConfig(a)]
    /\ AUTO_MIGRATE = FALSE
    /\ \E first \in MovementRequests :
         \E second \in {Absent} \cup {q \in MovementRequests :
                                        q.tenant.alias = TenantDB /\
                                        q.body = MovementBody("OUT", 2, None)} :
            req = [r \in Reqs |-> IF r = 1 THEN first ELSE IF r = 2 THEN second ELSE Absent]
    /\ pc = [r \in Reqs |-> IF req[r] = Absent THEN "absent" ELSE "start"]
    /\ alias = [r \in Reqs |-> None]
    /\ status = [r \in Reqs |-> 0]
    /\ log = [r \in Reqs |-> <<>>]
    /\ connections = [r \in Reqs |-> NoConnections]
    /\ schedules = {}
    /\ current_qty \in {0, 3}
    /\ movements \in {{}, {Movement(1, "IN", 3, 1)}}
    /\ audits = <<>>
    /\ frame = [r \in Reqs |-> NoFrame]
    /\ response = [r \in Reqs |-> <<>>]

NextInventory ==
    \/ \E r \in Reqs :
        \/ process_request(r)
        \/ initial(r)
        \/ initial_register(r)
        \/ initial_set(r)
        \/ handler_alias(r)
        \/ handler_alias_register(r)
        \/ movement_is_valid(r)
        \/ movement_save(r)
        \/ finalize_response(r)
        \/ process_response(r)
    \/ item_adjust_qty
    \/ movement_resave

SpecInventory == InitInventory /\ [][NextInventory]_vars

(***************************************************************************)
(* Reading the logs                                                        *)
(***************************************************************************)
Entries(r) == {log[r][i] : i \in DOMAIN log[r]}
At(r, op) == {i \in DOMAIN log[r] : log[r][i].op = op}
Count(r, e) == Cardinality({i \in DOMAIN log[r] : log[r][i] = e})
Writes(r) == At(r, "set") \cup At(r, "clear")
Last(S) == CHOOSE i \in S : \A j \in S : j <= i
HandlerEvents(r) == At(r, "handler_start") \cup At(r, "handler_end") \cup At(r, "access")
Done(r) == pc[r] = "done"
Routed(r) == req[r].view = "routed"

\* The alias a request names for its own data: the token's alias on a routed
\* view, the alias derived from the body on the register-db endpoint.
NamedAlias(r) ==
    IF Routed(r) THEN req[r].tenant.alias
    ELSE ensure_alias_for_client(ClientIdArg(req[r].body), ClientUsernameArg(req[r].body))

\* An alias of the form client_<digits>, the one shape registration derives.
Derivable(a) == startswith(a, "client_") /\ isdigit(split1(a))

InWindow(r) ==
    pc[r] \in {"handler_alias", "context_register", "perform_create",
               "perform_create_register", "save", "master_items", "finalize_response"}

\* C2: between a request's set_current_tenant(alias) and its clear, the current
\* tenant read by that request is its own alias, whatever other requests do.
C2_Isolation ==
    \A r \in Reqs : InWindow(r) => get_current_tenant = alias[r]

(***************************************************************************)
(* C3                                                                      *)
(***************************************************************************)
\* C3: every data access of a request, through using(alias) or through the
\* router, targets the database of the request's own tenant.
C3_OwnDatabase ==
    \A r \in Reqs : \A i \in At(r, "access") : log[r][i].arg = req[r].tenant.alias

(***************************************************************************)
(* C4                                                                      *)
(***************************************************************************)
Aliases == {NamedAlias(r) : r \in Reqs} \ {None}
Naming(a) == {r \in Reqs : NamedAlias(r) = a}

RECURSIVE Total(_, _)
Total(S, e) ==
    IF S = {} THEN 0
    ELSE LET r == CHOOSE x \in S : TRUE IN Count(r, e) + Total(S \ {r}, e)

\* C4: over the requests that name one alias, that alias is registered at most
\* once and migrated at most once in total, whatever the interleaving.
C4_SingleRegistration ==
    \A a \in Aliases :
        /\ Total(Naming(a), Registered(a)) <= 1
        /\ Total(Naming(a), Migrated(a)) <= 1

(***************************************************************************)
(* C5                                                                      *)
(***************************************************************************)
NoIndicator(r) == req[r].header = NoHeader /\ ~req[r].tenant.present

\* C5: a routed request with no X-Tenant-ID header and no tenant on its
\* principal never binds a tenant, never starts its handler, touches no
\* database and is answered with the authentication error.
C5_NoIndicator ==
    \A r \in Reqs :
        (Routed(r) /\ NoIndicator(r)) =>
            /\ \A i \in At(r, "set") : log[r][i].arg = None
            /\ HandlerEvents(r) = {}
            /\ Done(r) => status[r] = 401

(***************************************************************************)
(* C6                                                                      *)
(***************************************************************************)
Unresolvable(a) == a \notin DATABASES /\ ~Derivable(a)

\* C6: a request whose header names a tenant that is neither registered nor
\* derivable is never bound to the default alias and never runs a handler.
C6_FailClosed ==
    \A r \in Reqs :
        (req[r].header # NoHeader /\ Unresolvable(req[r].header)) =>
            /\ Set(DefaultTenant) \notin Entries(r)
            /\ At(r, "handler_start") = {}

(***************************************************************************)
(* C7                                                                      *)
(***************************************************************************)
Clears(r) == Cardinality(At(r, "clear"))

\* C7 as stated: a completed request has cleared the context exactly once and
\* has reached END exactly once.
C7_ClearedExactlyOnce ==
    \A r \in Reqs : Done(r) => Clears(r) = 1 /\ Count(r, End) = 1

\* dispatch hands a response to finalize_response unless an exception that the
\* framework does not handle left it.
ReachedFinalize(r) == Routed(r) /\ Raised("uncaught") \notin Entries(r)

\* C7 amended: a completed request has reached END exactly once,
\* process_response has cleared the context exactly once, and
\* finalize_response has cleared it once more exactly when a routed view's
\* dispatch returned a response (normal return or handled API error).
C7_ClearedOnceOrTwice ==
    \A r \in Reqs :
        Done(r) =>
            /\ Count(r, End) = 1
            /\ Count(r, Clear("process_response")) = 1
            /\ Count(r, Clear("finalize_response")) = (IF ReachedFinalize(r) THEN 1 ELSE 0)
            /\ Clears(r) \in {1, 2}

\* A routed request that returned 201 has completed with two clears, and
\* another whose handler raised an unexpected exception with one.
C7_Witness ==
    /\ \E r \in Reqs : Done(r) /\ Routed(r) /\ status[r] = 201 /\ Clears(r) = 2
    /\ \E r \in Reqs : Done(r) /\ Routed(r) /\ HandlerEnd("exception") \in Entries(r)
                       /\ Clears(r) = 1

(***************************************************************************)
(* C8                                                                      *)
(***************************************************************************)
\* C8: in a routed request every data access comes after the set of the
\* request's resolved alias, which comes after the resolution, and before any
\* clear; every clear comes after the end of the handler, and nothing but
\* clears and END follows a clear.
C8_Ordering ==
    \A r \in Reqs :
        Routed(r) =>
            /\ \A i \in At(r, "access") :
                 /\ \E j \in At(r, "set") :
                      /\ j < i
                      /\ log[r][j].arg = req[r].tenant.alias
                      /\ \E k \in At(r, "resolved") :
                           k < j /\ log[r][k].arg = log[r][j].arg
                 /\ \A c \in At(r, "clear") : i < c
            /\ \A c \in At(r, "clear") :
                 /\ \A s \in At(r, "handler_start") :
                      s < c /\ \E e \in At(r, "handler_end") : s < e /\ e < c
                 /\ \A j \in DOMAIN log[r] : j > c => log[r][j].op \in {"clear", "end"}

\* A routed request has completed after both data accesses of its handler.
C8_Witness ==
    \E r \in Reqs :
        /\ Done(r) /\ Routed(r) /\ status[r] = 201
        /\ Cardinality(At(r, "access")) = 2

(***************************************************************************)
(* C9                                                                      *)
(***************************************************************************)
RegisterDB(r) == req[r].view = "register_db"

\* C9: two register-db calls with the same client identifier answer with the
\* same registered alias, and migrate runs for that alias at most once in total.
C9_Idempotent ==
    \A r1, r2 \in Reqs :
        (/\ r1 # r2
         /\ RegisterDB(r1) /\ RegisterDB(r2)
         /\ req[r1].body = req[r2].body
         /\ Done(r1) /\ Done(r2)
         /\ status[r1] = 201 /\ status[r2] = 201) =>
            /\ alias[r1] = alias[r2]
            /\ alias[r1] \in DATABASES
            /\ Count(r1, Migrated(alias[r1])) + Count(r2, Migrated(alias[r1])) <= 1

(***************************************************************************)
(* C10                                                                     *)
(***************************************************************************)
\* C10: once the middleware has processed a request whose X-Tenant-ID names a
\* derivable tenant, that alias is registered and is the one the request bound.
C10_HeaderProvisioned ==
    \A r \in Reqs :
        (req[r].header # NoHeader /\ Derivable(req[r].header) /\ pc[r] # "start") =>
            /\ req[r].header \in DATABASES
            /\ Set(req[r].header) \in Entries(r)
            /\ Set(DefaultTenant) \notin Entries(r)

(***************************************************************************)
(* C11                                                                     *)
(***************************************************************************)
\* The entry that follows a "missing" mark at position i of r's log
AfterMissing(r, i) == log[r][i + 1]

MissingAt(r) == {i \in 1..(Len(log[r]) - 1) : log[r][i].op = "missing"}

NoIdentifier(t) ==
    t.client_username = None /\ t.client_id = None /\ ~startswith(t.alias, "client_")

ChosenText(t) ==
    IF t.client_username # None THEN t.client_username
    ELSE IF t.client_id # None THEN t.client_id
    ELSE split1(t.alias)

C12_SinglePath ==
    \A r \in Reqs : req[r].header # NoHeader => Cardinality(At(r, "set")) <= 1

(***************************************************************************)
(* C13                                                                     *)
(***************************************************************************)
RegisterTenant(r) == req[r].view = "register_tenant"

Incomplete(b) ==
    \E f \in {"tenant_id", "db_name", "db_user", "db_password"} : b[f] \in {None, ""}

ClientError(r) == status[r] \in 400..499

\* C13: the step that serves an administrative registration with incomplete
\* parameters answers with a client error, registers nothing and leaves the
\* registry as it was.
C13_IncompleteRejected ==
    [][\A r \in Reqs :
         (/\ RegisterTenant(r) /\ Incomplete(req[r].body)
          /\ pc[r] = "dispatch" /\ pc'[r] # "dispatch") =>
            /\ status'[r] \in 400..499
            /\ At(r, "register")' = {}
            /\ DATABASES' = DATABASES
            /\ db_config' = db_config]_vars

\* An administrator's registration with an empty password was answered 400.
C13_Witness ==
    \E r \in Reqs :
        /\ Done(r) /\ RegisterTenant(r)
        /\ req[r].caller = "admin"
        /\ req[r].body.tenant_id = "acme" /\ req[r].body.db_name = "db_a"
        /\ req[r].body.db_user = "u" /\ req[r].body.db_password = ""
        /\ status[r] = 400
        /\ "acme" \notin DATABASES

(***************************************************************************)
(* C14                                                                     *)
(***************************************************************************)
\* C14: no step removes an alias from the registry or changes the connection
\* parameters stored for an alias.
C14_Immutable ==
    [][\A a \in DATABASES : a \in DATABASES' /\ db_config'[a] = db_config[a]]_vars

(***************************************************************************)
(* C15                                                                     *)
(***************************************************************************)
\* C15: every data access of a request comes after that request resolved a
\* tenant alias, and goes to neither the shared nor the default database.
C15_NoAccessWithoutTenant ==
    \A r \in Reqs : \A i \in At(r, "access") :
        /\ \E j \in At(r, "resolved") : j < i
        /\ log[r][i].arg \notin {DefaultTenant, DjangoDefault}

(***************************************************************************)
(* C16                                                                     *)
(***************************************************************************)
\* C16: a registration endpoint called by a caller who is not an administrator
\* registers nothing.
C16_AdminOnly ==
    \A r \in Reqs :
        ((RegisterDB(r) \/ RegisterTenant(r)) /\ req[r].caller # "admin") =>
            At(r, "register") = {}

(***************************************************************************)
(* C17                                                                     *)
(***************************************************************************)
\* C17: a finished register-db call that was given a client_id or a
\* client_username, and met no database failure, resolved an alias and answered
\* 201 with it; migrate ran only if the gate is on.
C17_Bootstrap ==
    \A r \in Reqs :
        (/\ Done(r) /\ RegisterDB(r)
         /\ (req[r].body.client_id # None \/ req[r].body.client_username # None)
         /\ DbError \notin Entries(r)) =>
            /\ At(r, "resolved") # {}
            /\ status[r] = 201
            /\ alias[r] # None
            /\ At(r, "migrate") # {} => AUTO_MIGRATE

(***************************************************************************)
(* C18                                                                     *)
(***************************************************************************)
\* C18: a finished request that met a database failure was answered with a
\* server error, and on a routed view the context was cleared before the
\* response left.
C18_ServerError ==
    \A r \in Reqs :
        (Done(r) /\ DbError \in Entries(r)) =>
            /\ status[r] \in 500..599
            /\ Routed(r) => \E i \in At(r, "clear") : \A j \in At(r, "end") : i < j

(***************************************************************************)
(* C19                                                                     *)
(***************************************************************************)
\* The client identifiers a request carries
Identifiers(r) ==
    IF Routed(r)
    THEN LET t == req[r].tenant IN
         (IF t.present /\ t.client_id # None THEN {<<"client_id", t.client_id>>} ELSE {}) \cup
         (IF t.present /\ t.client_username # None
          THEN {<<"client_username", t.client_username>>} ELSE {}) \cup
         (IF t.present /\ startswith(t.alias, "client_") THEN {<<"alias", t.alias>>} ELSE {})
    ELSE LET b == req[r].body IN
         (IF b.client_id # None THEN {<<"client_id", b.client_id>>} ELSE {}) \cup
         (IF b.client_username # None
          THEN {<<"client_username", b.client_username>>} ELSE {})

RegisteredBy(r) == {log[r][i].arg : i \in At(r, "register")}

\* C19: two finished requests that carry the same client identifier and both
\* registered a tenant registered the same alias, and both resolved the same
\* alias.
C19_Deterministic ==
    \A r1, r2 \in Reqs :
        (/\ Done(r1) /\ Done(r2)
         /\ Identifiers(r1) \cap Identifiers(r2) # {}
         /\ RegisteredBy(r1) # {} /\ RegisteredBy(r2) # {}) =>
            /\ RegisteredBy(r1) = RegisteredBy(r2)
            /\ alias[r1] = alias[r2]

(***************************************************************************)
(* C20                                                                     *)
(***************************************************************************)
\* A tenant that _ensure_alias_ready can neither map nor provision
Unprovisionable(t) ==
    \/ NoIdentifier(t)
    \/ t.client_username = None /\ ~IntOk(ChosenText(t))

\* C20: a finished routed request whose alias was missing from the registry
\* and could not be provisioned was answered with a client error, and no
\* exception went uncaught.
C20_ClientError ==
    \A r \in Reqs :
        (/\ Done(r) /\ Routed(r)
         /\ At(r, "missing") # {}
         /\ Unprovisionable(req[r].tenant)) =>
            /\ ClientError(r)
            /\ Raised("uncaught") \notin Entries(r)

C22_EvictIdempotent ==
    \A r \in Reqs :
        (/\ Done(r) /\ RegisterDB(r)
         /\ alias[r] # None
         /\ DbError \notin Entries(r)) =>
            /\ status[r] = 201
            /\ Cached(connections[r], alias[r]) = {}

\* A register-db call answered 201 by a thread that never opened a handle:
\* the close found nothing cached.
C22_Witness ==
    \E r \in Reqs :
        /\ Done(r) /\ RegisterDB(r)
        /\ status[r] = 201
        /\ ~AUTO_MIGRATE
        /\ connections[r].opened = 0


(***************************************************************************)
(* The schedule views                                                      *)
(***************************************************************************)
Weekly(r) == req[r].view = "weekly"
ByRestaurant(r) == req[r].view = "by_restaurant"
Bulk(r) == req[r].view = "bulk"
OfTenantDB(r) == req[r].tenant.alias = TenantDB
Alone == \A q \in Reqs \ {Worker} : req[q] = Absent

\* The seven rows the weekly view is to answer for a table: the stored row
\* of a day when there is one, the default row otherwise
WeekOf(T, restaurant) ==
    [d \in Days |-> IF ActiveManager(OfDay(T, restaurant, d)) # {}
                    THEN CHOOSE x \in ActiveManager(OfDay(T, restaurant, d)) : TRUE
                    ELSE WeeklyDefault(d)]

\* C23: RestaurantWeeklyScheduleView.get answers exactly seven rows, day 1
\* to day 7 in ascending order, the stored schedule of a day when one exists
\* and the default row otherwise (read here on the tenant the header names,
\* with no other request in flight), and it creates or modifies nothing.
C23_SevenRows ==
    (Alone /\ Done(Worker) /\ Weekly(Worker) /\ req[Worker].header = TenantDB)
        => /\ status[Worker] = 200
           /\ response[Worker] = WeekOf(schedules, req[Worker].body.restaurant)
           /\ schedules \in StoredSchedules

\* C24: once by_restaurant has been served for a registered tenant, whatever
\* rows the table held before (rows marked is_deleted included) and whatever
\* other by_restaurant call ran beside it, the restaurant has exactly one row
\* for each day 1..7, the rows that existed are unchanged, the created rows
\* are not operational, and the response lists seven rows ordered by day.
C24_OneRowPerDay ==
    \A r \in Reqs :
        (Done(r) /\ ByRestaurant(r) /\ OfTenantDB(r) /\ ~Bulk(Worker))
            => /\ status[r] = 200
               /\ \A d \in Days :
                     Cardinality(OfDay(schedules, req[r].body.restaurant, d)) = 1
               /\ frame[r].before \subseteq schedules
               /\ \A x \in schedules \ frame[r].before : ~x.operational
               /\ Len(response[r]) = 7
               /\ \A d \in Days : response[r][d].day = d

\* The rows of restaurant and days other than the ones a bulk request names
Others(T, b) ==
    {x \in T : x.restaurant # b.restaurant \/ \A i \in DOMAIN b.days : x.day # b.days[i]}

\* C30: after the bulk operation for restaurant r and a valid day list D,
\* every day of D has exactly one row and it holds the submitted values, the
\* rows of other days and restaurants are unchanged, and the response has one
\* entry per element of D, in the order of D.
C30_BulkApplied ==
    LET b == req[Worker].body IN
    (Alone /\ Done(Worker) /\ Bulk(Worker) /\ \A i \in DOMAIN b.days : b.days[i] \in Days)
        => /\ status[Worker] = 201
           /\ \A i \in DOMAIN b.days :
                 /\ Cardinality(OfDay(schedules, b.restaurant, b.days[i])) = 1
                 /\ \A x \in OfDay(schedules, b.restaurant, b.days[i]) :
                       x.operational = b.operational /\ x.start_time = b.start_time
           /\ Others(schedules, b) = Others(frame[Worker].before, b)
           /\ Len(response[Worker]) = Len(b.days)
           /\ \A i \in DOMAIN b.days : response[Worker][i].day = b.days[i]

(***************************************************************************)
(* Registration and the bound alias                                        *)
(***************************************************************************)
\* C25: in every reachable state a current tenant other than none is an
\* alias of the registry, and so is every alias _ensure_alias_ready has
\* returned to a request: neither initial nor process_request binds an alias
\* that is not registered.
C25_BoundIsRegistered ==
    /\ currentTenant # None => currentTenant \in DATABASES
    /\ \A r \in Reqs : alias[r] # None => alias[r] \in DATABASES

\* C26: _ensure_alias_ready registers only after it found the alias missing
\* (an alias already in the registry is returned with no registration), and
\* so the calls one request makes (initial, get_serializer_context, _alias)
\* cause at most one registration.
C26_AtMostOneRegistration ==
    \A r \in Reqs :
        req[r].view \in RoutedViews
            => /\ \A i \in At(r, "register") : i > 1 /\ log[r][i - 1].op = "missing"
               /\ Cardinality(At(r, "register")) <= 1

\* C27: RegisterDBByClientAPIView.post never calls ensure_alias_for_client
\* with both client_id and client_username empty: it answers 400 without the
\* call, or passes at least one identifier of the request.
C27_EnsureHasIdentifier ==
    \A r \in Reqs : \A i \in At(r, "ensure") :
        ~(log[r][i].arg = None /\ log[r][i].via = None)

(***************************************************************************)
(* Inventory                                                               *)
(***************************************************************************)
MovementView(r) == req[r].view = "movement"

\* A movement request that passes validation for a registered tenant
Accepted(r) ==
    /\ Done(r) /\ MovementView(r) /\ OfTenantDB(r)
    /\ req[r].body.movement_type \in MOVEMENT_CHOICES
    /\ req[r].body.qty >= 0
    /\ req[r].body.to_location = None

AuditsOf(id) == {i \in DOMAIN audits : audits[i].movement = id}

\* C28: current_qty is never negative, whatever movements and direct
\* adjust_qty calls came before, and an OUT movement larger than the stock it
\* finds leaves the stock at 0.
C28_NeverNegative ==
    /\ current_qty >= 0
    /\ \A r \in Reqs :
          (Accepted(r) /\ req[r].body.movement_type = "OUT"
                       /\ req[r].body.qty > frame[r].qty_before)
              => frame[r].qty_after = 0

\* C29: creating an InventoryMovement succeeds and is applied exactly once,
\* together with its audit record: IN adds qty, OUT subtracts it with the
\* floor at 0, TRANSFER leaves the stock, and exactly one InventoryAudit row
\* with the resulting qty_after is written; saving a movement that exists
\* adds no audit row.
C29_AppliedOnceWithAudit ==
    /\ \A r \in Reqs :
          Accepted(r)
              => /\ status[r] = 201
                 /\ frame[r].qty_after =
                       (CASE req[r].body.movement_type = "IN" ->
                                 frame[r].qty_before + req[r].body.qty
                          [] req[r].body.movement_type = "OUT" ->
                                 max(frame[r].qty_before - req[r].body.qty, 0)
                          [] OTHER -> frame[r].qty_before)
                 /\ Cardinality(AuditsOf(frame[r].movement)) = 1
                 /\ \A i \in AuditsOf(frame[r].movement) :
                       audits[i].qty_after = frame[r].qty_after
    /\ \A m \in movements : Cardinality(AuditsOf(m.id)) <= 1
====
